---- MODULE Spec2Model ----
(***************************************************************************)
(* Model of the ACR publish plugin (relicta-tech/plugin-acr):              *)
(*   plugin.go  - ACRPlugin.Execute, parseConfig, processTags,             *)
(*                processTemplate                                          *)
(*   client.go  - ACRClient.Authenticate and its four strategies,          *)
(*                ACRClient.GetRegistryURL                                 *)
(* Go strings are sequences of one-character strings, so that              *)
(* strings.HasSuffix, strings.Contains and strings.ReplaceAll are computed *)
(* character by character.  An external process (os/exec CommandContext +  *)
(* CombinedOutput) is an entry of the log `calls`, whose result moves from *)
(* "running" to "ok", "fail" or "killed"; a command created under a        *)
(* context that is already done is logged as "notstarted".                 *)
(***************************************************************************)
EXTENDS Integers, Sequences, FiniteSets, TLC

VARIABLES pc, req, cfg, tags, calls, i, pushedImages, resp, ctxDone, cancelledInFlight,
          client, url1, url2, upc,
          tpieces, tctx, tresult, tpc,
          ltemplates, lctx, lresults, lprocessed, lpc,
          vraw, verrors, vpc

vars == <<pc, req, cfg, tags, calls, i, pushedImages, resp, ctxDone, cancelledInFlight,
          client, url1, url2, upc,
          tpieces, tctx, tresult, tpc,
          ltemplates, lctx, lresults, lprocessed, lpc,
          vraw, verrors, vpc>>

execVars == <<pc, req, cfg, tags, calls, i, pushedImages, resp, ctxDone, cancelledInFlight>>

urlVars == <<client, url1, url2, upc>>

\* one template and its result; a template list and its results; one
\* configuration map and its validation errors
tmplVars == <<tpieces, tctx, tresult, tpc>>

listVars == <<ltemplates, lctx, lresults, lprocessed, lpc>>

valVars == <<vraw, verrors, vpc>>

pureVars == <<tmplVars, listVars, valVars>>

\* no operation of the model has begun
AllIdle == pc = "idle" /\ upc = "idle" /\ tpc = "idle" /\ lpc = "idle" /\ vpc = "idle"

-----------------------------------------------------------------------------
(* Bounds of the model. *)

\* longest tag-template list of a request
MaxTags == 2

\* most chunks a registry name of the resolver specification is built from
MaxChunks == 3

\* longest template list processTags is applied to on its own
MaxTemplates == 3

\* most pieces a template processTemplate is applied to on its own is built from
MaxPieces == 2

-----------------------------------------------------------------------------
(* String literals of the source, character by character. *)

AcrSuffix == <<".", "a", "z", "u", "r", "e", "c", "r", ".", "i", "o">>

S_az == <<"a", "z">>

S_acr == <<"a", "c", "r">>

S_login == <<"l", "o", "g", "i", "n">>

S_name == <<"-", "-", "n", "a", "m", "e">>

S_sp == <<"-", "-", "s", "e", "r", "v", "i", "c", "e", "-", "p", "r", "i", "n", "c", "i", "p", "a", "l">>

S_u == <<"-", "u">>

S_p == <<"-", "p">>

S_tenant == <<"-", "-", "t", "e", "n", "a", "n", "t">>

S_docker == <<"d", "o", "c", "k", "e", "r">>

S_pwstdin == <<"-", "-", "p", "a", "s", "s", "w", "o", "r", "d", "-", "s", "t", "d", "i", "n">>

S_tag == <<"t", "a", "g">>

S_push == <<"p", "u", "s", "h">>

S_slash == <<"/">>

S_dash == <<"-">>

S_colon == <<":">>

S_if == <<"{", "{", "i", "f">>

P_Version == <<"{", "{", ".", "V", "e", "r", "s", "i", "o", "n", "}", "}">>

P_PreviousVersion == <<"{", "{", ".", "P", "r", "e", "v", "i", "o", "u", "s", "V", "e", "r", "s", "i", "o", "n", "}", "}">>

P_TagName == <<"{", "{", ".", "T", "a", "g", "N", "a", "m", "e", "}", "}">>

P_ReleaseType == <<"{", "{", ".", "R", "e", "l", "e", "a", "s", "e", "T", "y", "p", "e", "}", "}">>

P_Branch == <<"{", "{", ".", "B", "r", "a", "n", "c", "h", "}", "}">>

-----------------------------------------------------------------------------
(* The Go strings package, on sequences of characters. *)

\* strings.HasPrefix(s, p)
HasPrefix(s, p) == Len(p) <= Len(s) /\ SubSeq(s, 1, Len(p)) = p

\* strings.HasSuffix(s, suf)
HasSuffix(s, suf) == Len(suf) <= Len(s) /\ SubSeq(s, Len(s) - Len(suf) + 1, Len(s)) = suf

\* strings.Contains(s, sub)
Contains(s, sub) == \E k \in 0..(Len(s) - Len(sub)) : SubSeq(s, k + 1, k + Len(sub)) = sub

\* strings.ReplaceAll(s, old, new) for a non-empty old: leftmost matches,
\* non-overlapping, the inserted text is not scanned again
RECURSIVE ReplaceAll(_, _, _)
ReplaceAll(s, old, new) ==
    IF Len(s) < Len(old) THEN s
    ELSE IF SubSeq(s, 1, Len(old)) = old
         THEN new \o ReplaceAll(SubSeq(s, Len(old) + 1, Len(s)), old, new)
         ELSE <<Head(s)>> \o ReplaceAll(Tail(s), old, new)

\* concatenation of a sequence of strings
RECURSIVE Concat(_)
Concat(ss) == IF ss = <<>> THEN <<>> ELSE Head(ss) \o Concat(Tail(ss))

-----------------------------------------------------------------------------
(* client.go *)

\* NewACRClient(registry)
NewACRClient(registry) == [registry |-> registry]

\* the resolver that looks for the suffix anywhere in the name
GetRegistryURLContains(c) ==
    IF Contains(c.registry, AcrSuffix) THEN c.registry ELSE c.registry \o AcrSuffix

\* ACRClient.GetRegistryURL
GetRegistryURL(c) ==
    IF HasSuffix(c.registry, AcrSuffix) THEN c.registry ELSE c.registry \o AcrSuffix

\* the exec.Cmd of authenticateAzureCLI
AzureCLICmd(c) ==
    [argv |-> <<S_az, S_acr, S_login, S_name, c.registry>>, stdin |-> <<>>]

\* the exec.Cmd of authenticateManagedIdentity
ManagedIdentityCmd(c) ==
    [argv |-> <<S_az, S_acr, S_login, S_name, c.registry>>, stdin |-> <<>>]

\* the first exec.Cmd of authenticateServicePrincipal
ServicePrincipalLoginCmd(auth) ==
    [argv |-> <<S_az, S_login, S_sp, S_u, auth.ClientID, S_p, auth.ClientSecret,
                S_tenant, auth.TenantID>>,
     stdin |-> <<>>]

\* the admin login that passes the password as an argument
AdminCmdPasswordArg(c, auth) ==
    [argv |-> <<S_docker, S_login, GetRegistryURL(c), S_u, auth.Username, S_p, auth.Password>>,
     stdin |-> <<>>]

\* the exec.Cmd of authenticateAdmin, with cmd.Stdin
AdminCmd(c, auth) ==
    [argv |-> <<S_docker, S_login, GetRegistryURL(c), S_u, auth.Username, S_pwstdin>>,
     stdin |-> auth.Password]

\* the method names Authenticate dispatches on
KnownMethods == {"azure_cli", "", "service_principal", "admin", "managed_identity"}

-----------------------------------------------------------------------------
(* The container-tool client (DockerClient.Tag, DockerClient.Push). *)

\* docker tag <source> <target>
DockerTagCmd(source, target) ==
    [argv |-> <<S_docker, S_tag, source, target>>, stdin |-> <<>>]

\* docker push <target>
DockerPushCmd(target) ==
    [argv |-> <<S_docker, S_push, target>>, stdin |-> <<>>]

-----------------------------------------------------------------------------
(* plugin.go: configuration and tag templates *)

\* helpers.ConfigParser.GetString(key, envVar, default): the value of the key
\* when it is a non-empty string, else the environment's, else the default
GetString(value, envValue, default) ==
    IF value # <<>> THEN value ELSE IF envValue # <<>> THEN envValue ELSE default

\* the auth method of parseConfig: "azure_cli" without an auth map, and
\* GetString("method", "", "azure_cli") with one
ParseAuthMethod(raw) ==
    IF raw.hasAuth THEN (IF raw.method # "" THEN raw.method ELSE "azure_cli")
    ELSE "azure_cli"

\* ACRPlugin.parseConfig
parseConfig(raw) ==
    [Registry     |-> GetString(raw.registry, <<>>, <<>>),
     Repository   |-> GetString(raw.repository, <<>>, <<>>),
     Image        |-> GetString(raw.image, <<>>, <<>>),
     AuthMethod   |-> ParseAuthMethod(raw),
     ClientID     |-> IF raw.hasAuth THEN GetString(raw.client_id, <<>>, <<>>) ELSE <<>>,
     ClientSecret |-> IF raw.hasAuth THEN GetString(raw.client_secret, <<>>, <<>>) ELSE <<>>,
     TenantID     |-> IF raw.hasAuth THEN GetString(raw.tenant_id, <<>>, <<>>) ELSE <<>>,
     Username     |-> IF raw.hasAuth THEN GetString(raw.username, <<>>, <<>>) ELSE <<>>,
     Password     |-> IF raw.hasAuth THEN GetString(raw.password, <<>>, <<>>) ELSE <<>>,
     SourceImage  |-> GetString(raw.source_image, <<>>, <<>>),
     Tags         |-> IF Len(raw.tags) = 0 THEN <<P_Version>> ELSE raw.tags,
     DryRun       |-> raw.dry_run]

\* the template resolver that inserts the branch name as it is
processTemplateRawBranch(tmpl, ctx) ==
    IF Contains(tmpl, S_if) THEN <<>>
    ELSE LET r1 == ReplaceAll(tmpl, P_Version, ctx.Version)
             r2 == ReplaceAll(r1, P_PreviousVersion, ctx.PreviousVersion)
             r3 == ReplaceAll(r2, P_TagName, ctx.TagName)
             r4 == ReplaceAll(r3, P_ReleaseType, ctx.ReleaseType)
         IN  IF ctx.Branch # <<>> THEN ReplaceAll(r4, P_Branch, ctx.Branch) ELSE r4

\* ACRPlugin.processTemplate
processTemplate(tmpl, ctx) ==
    IF Contains(tmpl, S_if) THEN <<>>
    ELSE LET r1 == ReplaceAll(tmpl, P_Version, ctx.Version)
             r2 == ReplaceAll(r1, P_PreviousVersion, ctx.PreviousVersion)
             r3 == ReplaceAll(r2, P_TagName, ctx.TagName)
             r4 == ReplaceAll(r3, P_ReleaseType, ctx.ReleaseType)
         IN  IF ctx.Branch # <<>>
             THEN ReplaceAll(r4, P_Branch, ReplaceAll(ctx.Branch, S_slash, S_dash))
             ELSE r4

\* the loop that appends every result, empty or not
RECURSIVE processTagsKeepEmpty(_, _)
processTagsKeepEmpty(ts, ctx) ==
    IF ts = <<>> THEN <<>>
    ELSE <<processTemplate(Head(ts), ctx)>> \o processTagsKeepEmpty(Tail(ts), ctx)

\* ACRPlugin.processTags
RECURSIVE processTags(_, _)
processTags(ts, ctx) ==
    IF ts = <<>> THEN <<>>
    ELSE LET result == processTemplate(Head(ts), ctx)
         IN  (IF result # <<>> THEN <<result>> ELSE <<>>) \o processTags(Tail(ts), ctx)

\* the merge that forgets the dry-run flag of the request
MergeDryRunConfigOnly(c, reqDryRun) == c

\* cfg.DryRun = cfg.DryRun || req.DryRun
MergeDryRun(c, reqDryRun) == [c EXCEPT !.DryRun = @ \/ reqDryRun]

\* the validation that reports the first violation only
ValidateFirstOnly(raw) ==
    LET c == parseConfig(raw)
        all == (IF c.Registry = <<>> THEN <<"registry">> ELSE <<>>)
               \o (IF c.Image = <<>> THEN <<"image">> ELSE <<>>)
               \o (IF c.SourceImage = <<>> THEN <<"source_image">> ELSE <<>>)
               \o (IF c.AuthMethod \notin {"azure_cli", "service_principal", "admin",
                                           "managed_identity", ""}
                   THEN <<"auth.method">> ELSE <<>>)
               \o (IF c.AuthMethod = "service_principal"
                      /\ (c.ClientID = <<>> \/ c.ClientSecret = <<>> \/ c.TenantID = <<>>)
                   THEN <<"auth">> ELSE <<>>)
               \o (IF c.AuthMethod = "admin" /\ (c.Username = <<>> \/ c.Password = <<>>)
                   THEN <<"auth">> ELSE <<>>)
    IN  IF all = <<>> THEN <<>> ELSE <<Head(all)>>

\* ACRPlugin.Validate: the fields of the errors of the response, in order
Validate(raw) ==
    LET c == parseConfig(raw)
    IN  (IF c.Registry = <<>> THEN <<"registry">> ELSE <<>>)
        \o (IF c.Image = <<>> THEN <<"image">> ELSE <<>>)
        \o (IF c.SourceImage = <<>> THEN <<"source_image">> ELSE <<>>)
        \o (IF c.AuthMethod \notin {"azure_cli", "service_principal", "admin",
                                    "managed_identity", ""}
            THEN <<"auth.method">> ELSE <<>>)
        \o (IF c.AuthMethod = "service_principal"
               /\ (c.ClientID = <<>> \/ c.ClientSecret = <<>> \/ c.TenantID = <<>>)
            THEN <<"auth">> ELSE <<>>)
        \o (IF c.AuthMethod = "admin" /\ (c.Username = <<>> \/ c.Password = <<>>)
            THEN <<"auth">> ELSE <<>>)

\* the image path that leaves the repository out
ImagePathNoRepository(c) == c.Image

\* the image path of Execute: repository/image, or image alone
ImagePath(c) ==
    IF c.Repository # <<>> THEN c.Repository \o S_slash \o c.Image ELSE c.Image

\* the target image of Execute: registryURL/imagePath:tag
TargetImage(c, tag) ==
    GetRegistryURL(NewACRClient(c.Registry)) \o S_slash \o ImagePath(c) \o S_colon \o tag

\* the AuthConfig Execute builds from the configuration
AuthConfigOf(c) ==
    [Method |-> c.AuthMethod, ClientID |-> c.ClientID, ClientSecret |-> c.ClientSecret,
     TenantID |-> c.TenantID, Username |-> c.Username, Password |-> c.Password]

-----------------------------------------------------------------------------
(* The requests Execute is called with. *)

\* a literal tag, the version placeholder and a conditional template
Templates == {<<"l">>, P_Version, S_if \o <<"}", "}">>}

\* the tag-template lists of a configuration map
TagLists == UNION {[1..n -> Templates] : n \in 0..MaxTags}

\* the release context of the host
Contexts ==
    {[Version |-> v, PreviousVersion |-> <<"0">>, TagName |-> <<"v", "1">>,
      Branch |-> <<"f", "/", "b">>, ReleaseType |-> <<"m">>] : v \in {<<>>, <<"1">>}}

\* the auth map of a configuration: absent, or a method with or without
\* the credentials of the two methods that need them
AuthMaps ==
    {[hasAuth |-> FALSE, method |-> "", client_id |-> <<>>, client_secret |-> <<>>,
      tenant_id |-> <<>>, username |-> <<>>, password |-> <<>>]}
    \cup
    {[hasAuth |-> TRUE, method |-> m, client_id |-> <<"c">>, client_secret |-> <<"k">>,
      tenant_id |-> <<"t">>, username |-> <<"n">>, password |-> <<"$">>] :
        m \in {"", "azure_cli", "service_principal", "admin", "managed_identity", "bogus"}}
    \cup
    {[hasAuth |-> TRUE, method |-> m, client_id |-> <<>>, client_secret |-> <<>>,
      tenant_id |-> <<>>, username |-> <<>>, password |-> <<>>] :
        m \in {"service_principal", "admin"}}

\* the raw configuration maps
RawConfigs ==
    {[registry |-> r, repository |-> p, image |-> im, source_image |-> s, tags |-> t,
      dry_run |-> d, hasAuth |-> a.hasAuth, method |-> a.method,
      client_id |-> a.client_id, client_secret |-> a.client_secret,
      tenant_id |-> a.tenant_id, username |-> a.username, password |-> a.password] :
        r \in {<<>>, <<"r">>, <<"r">> \o AcrSuffix},
        p \in {<<>>, <<"p">>},
        im \in {<<>>, <<"a">>},
        s \in {<<>>, <<"s">>},
        t \in TagLists,
        d \in BOOLEAN,
        a \in AuthMaps}

\* plugin.ExecuteRequest
Requests == [Config : RawConfigs, Context : Contexts, DryRun : BOOLEAN]

\* the requests with the short registry name, an image and a source image
CompleteRequests ==
    {r \in Requests : /\ r.Config.registry = <<"r">>
                      /\ r.Config.image = <<"a">>
                      /\ r.Config.source_image = <<"s">>}

-----------------------------------------------------------------------------
(* External processes: exec.CommandContext(ctx, ...) and CombinedOutput. *)

NoReq == CHOOSE r \in Requests : TRUE

NoCfg == parseConfig(NoReq.Config)

NoResp == [returned |-> FALSE, hasResponse |-> FALSE, err |-> "", Success |-> FALSE,
           registry |-> <<>>, repository |-> <<>>, tags |-> <<>>, pushed_images |-> <<>>]

Running == calls # <<>> /\ calls[Len(calls)].result = "running"

\* the check that takes every finished command for a success
LastOkErrIgnored == calls # <<>> /\ calls[Len(calls)].result # "running"

\* err == nil after CombinedOutput
LastOk == calls # <<>> /\ calls[Len(calls)].result = "ok"

\* the command made with exec.Command: it starts whatever the context says
StartCmdNoContext(cmd) ==
    Append(calls, [argv |-> cmd.argv, stdin |-> cmd.stdin, result |-> "running",
                   ctxDoneAtStart |-> ctxDone])

\* cmd.CombinedOutput() begins: cmd.Start() starts no process when the
\* context is already done, and a process otherwise
StartCmd(cmd) ==
    Append(calls, [argv |-> cmd.argv, stdin |-> cmd.stdin,
                   result |-> IF ctxDone THEN "notstarted" ELSE "running",
                   ctxDoneAtStart |-> ctxDone])

SetLast(res) == [calls EXCEPT ![Len(calls)].result = res]

\* Execute returns (nil, err)
ReturnError(msg) == [NoResp EXCEPT !.returned = TRUE, !.err = msg]

\* Execute returns (&plugin.ExecuteResponse{...}, nil)
ReturnSuccess ==
    [returned |-> TRUE, hasResponse |-> TRUE, err |-> "", Success |-> TRUE,
     registry |-> GetRegistryURL(NewACRClient(cfg.Registry)),
     repository |-> cfg.Repository, tags |-> tags, pushed_images |-> pushedImages]

-----------------------------------------------------------------------------
(* ACRPlugin.Execute, step by step. *)

Init ==
    /\ pc = "idle"
    /\ req = NoReq
    /\ cfg = NoCfg
    /\ tags = <<>>
    /\ calls = <<>>
    /\ i = 1
    /\ pushedImages = <<>>
    /\ resp = NoResp
    /\ ctxDone = FALSE
    /\ cancelledInFlight = FALSE
    /\ client = NewACRClient(<<>>)
    /\ url1 = <<>>
    /\ url2 = <<>>
    /\ upc = "idle"
    /\ tpieces = <<>>
    /\ tctx = NoReq.Context
    /\ tresult = <<>>
    /\ tpc = "idle"
    /\ ltemplates = <<>>
    /\ lctx = NoReq.Context
    /\ lresults = <<>>
    /\ lprocessed = <<>>
    /\ lpc = "idle"
    /\ vraw = NoReq.Config
    /\ verrors = <<>>
    /\ vpc = "idle"

\* Execute is entered with a request of R: parseConfig, the dry-run merge,
\* processTags
ExecuteBeginFrom(R) ==
    /\ AllIdle
    /\ \E r \in R :
          /\ req' = r
          /\ cfg' = MergeDryRun(parseConfig(r.Config), r.DryRun)
          /\ tags' = processTags(cfg'.Tags, r.Context)
    /\ pc' = "auth"
    /\ UNCHANGED <<calls, i, pushedImages, resp, ctxDone, cancelledInFlight>>
    /\ UNCHANGED <<urlVars, pureVars>>

\* the switch of Authenticate that runs the azure_cli strategy for a method
\* it does not know
AuthenticateFallback ==
    /\ pc = "auth"
    /\ LET c == NewACRClient(cfg.Registry)
           auth == AuthConfigOf(cfg)
       IN  IF cfg.DryRun
           THEN /\ pc' = "loop"
                /\ UNCHANGED <<calls, resp>>
           ELSE IF auth.Method = "service_principal"
           THEN /\ calls' = StartCmd(ServicePrincipalLoginCmd(auth))
                /\ pc' = "az_login"
                /\ UNCHANGED resp
           ELSE IF auth.Method = "admin"
           THEN /\ calls' = StartCmd(AdminCmd(c, auth))
                /\ pc' = "docker_login"
                /\ UNCHANGED resp
           ELSE IF auth.Method = "managed_identity"
           THEN /\ calls' = StartCmd(ManagedIdentityCmd(c))
                /\ pc' = "mi_login"
                /\ UNCHANGED resp
           ELSE /\ calls' = StartCmd(AzureCLICmd(c))
                /\ pc' = "acr_login"
                /\ UNCHANGED resp
    /\ i' = 1
    /\ pushedImages' = <<>>
    /\ UNCHANGED <<req, cfg, tags, ctxDone, cancelledInFlight>>
    /\ UNCHANGED <<urlVars, pureVars>>

\* the authentication block of Execute and the switch of Authenticate
Authenticate ==
    /\ pc = "auth"
    /\ LET c == NewACRClient(cfg.Registry)
           auth == AuthConfigOf(cfg)
       IN  IF cfg.DryRun
           THEN /\ pc' = "loop"
                /\ UNCHANGED <<calls, resp>>
           ELSE IF auth.Method \in {"azure_cli", ""}
           THEN /\ calls' = StartCmd(AzureCLICmd(c))
                /\ pc' = "acr_login"
                /\ UNCHANGED resp
           ELSE IF auth.Method = "service_principal"
           THEN /\ calls' = StartCmd(ServicePrincipalLoginCmd(auth))
                /\ pc' = "az_login"
                /\ UNCHANGED resp
           ELSE IF auth.Method = "admin"
           THEN /\ calls' = StartCmd(AdminCmd(c, auth))
                /\ pc' = "docker_login"
                /\ UNCHANGED resp
           ELSE IF auth.Method = "managed_identity"
           THEN /\ calls' = StartCmd(ManagedIdentityCmd(c))
                /\ pc' = "mi_login"
                /\ UNCHANGED resp
           ELSE /\ resp' = ReturnError("failed to authenticate with ACR")
                /\ pc' = "done"
                /\ UNCHANGED calls
    /\ i' = 1
    /\ pushedImages' = <<>>
    /\ UNCHANGED <<req, cfg, tags, ctxDone, cancelledInFlight>>
    /\ UNCHANGED <<urlVars, pureVars>>

\* the service principal login that does not go on to the registry login
ServicePrincipalLoginOnly ==
    /\ pc = "az_login"
    /\ ~Running
    /\ IF LastOk
       THEN /\ pc' = "loop"
            /\ UNCHANGED resp
       ELSE /\ resp' = ReturnError("failed to authenticate with ACR")
            /\ pc' = "done"
    /\ UNCHANGED <<req, cfg, tags, calls, i, pushedImages, ctxDone, cancelledInFlight>>
    /\ UNCHANGED <<urlVars, pureVars>>

\* authenticateServicePrincipal after `az login`: the error return, or
\* authenticateAzureCLI
ServicePrincipalLoginReturns ==
    /\ pc = "az_login"
    /\ ~Running
    /\ IF LastOk
       THEN /\ calls' = StartCmd(AzureCLICmd(NewACRClient(cfg.Registry)))
            /\ pc' = "acr_login"
            /\ UNCHANGED resp
       ELSE /\ resp' = ReturnError("failed to authenticate with ACR")
            /\ pc' = "done"
            /\ UNCHANGED calls
    /\ UNCHANGED <<req, cfg, tags, i, pushedImages, ctxDone, cancelledInFlight>>
    /\ UNCHANGED <<urlVars, pureVars>>

\* the last login command of a strategy returns to Authenticate and Execute
LoginReturns ==
    /\ pc \in {"acr_login", "docker_login", "mi_login"}
    /\ ~Running
    /\ IF LastOk
       THEN /\ pc' = "loop"
            /\ UNCHANGED resp
       ELSE /\ resp' = ReturnError("failed to authenticate with ACR")
            /\ pc' = "done"
    /\ UNCHANGED <<req, cfg, tags, calls, i, pushedImages, ctxDone, cancelledInFlight>>
    /\ UNCHANGED <<urlVars, pureVars>>

\* the loop that skips a tag equal to an earlier one
LoopStepDedup ==
    /\ pc = "loop"
    /\ IF i > Len(tags)
       THEN /\ resp' = ReturnSuccess
            /\ pc' = "done"
            /\ UNCHANGED <<calls, i, pushedImages>>
       ELSE IF tags[i] = <<>> \/ \E j \in 1..(i - 1) : tags[j] = tags[i]
       THEN /\ i' = i + 1
            /\ UNCHANGED <<pc, calls, pushedImages, resp>>
       ELSE IF cfg.DryRun
       THEN /\ pushedImages' = Append(pushedImages, TargetImage(cfg, tags[i]))
            /\ i' = i + 1
            /\ UNCHANGED <<pc, calls, resp>>
       ELSE /\ calls' = StartCmd(DockerTagCmd(cfg.SourceImage, TargetImage(cfg, tags[i])))
            /\ pc' = "tag"
            /\ UNCHANGED <<i, pushedImages, resp>>
    /\ UNCHANGED <<req, cfg, tags, ctxDone, cancelledInFlight>>
    /\ UNCHANGED <<urlVars, pureVars>>

\* Execute is entered with any request
ExecuteBegin == ExecuteBeginFrom(Requests)

\* Execute is entered with a request of a complete configuration
ExecuteBeginComplete == ExecuteBeginFrom(CompleteRequests)

\* one pass of `for _, tag := range tags` up to docker.Tag, and the return
\* after the loop
LoopStep ==
    /\ pc = "loop"
    /\ IF i > Len(tags)
       THEN /\ resp' = ReturnSuccess
            /\ pc' = "done"
            /\ UNCHANGED <<calls, i, pushedImages>>
       ELSE IF tags[i] = <<>>
       THEN /\ i' = i + 1
            /\ UNCHANGED <<pc, calls, pushedImages, resp>>
       ELSE IF cfg.DryRun
       THEN /\ pushedImages' = Append(pushedImages, TargetImage(cfg, tags[i]))
            /\ i' = i + 1
            /\ UNCHANGED <<pc, calls, resp>>
       ELSE /\ calls' = StartCmd(DockerTagCmd(cfg.SourceImage, TargetImage(cfg, tags[i])))
            /\ pc' = "tag"
            /\ UNCHANGED <<i, pushedImages, resp>>
    /\ UNCHANGED <<req, cfg, tags, ctxDone, cancelledInFlight>>
    /\ UNCHANGED <<urlVars, pureVars>>

\* docker.Tag returns: the error return, or docker.Push
TagReturns ==
    /\ pc = "tag"
    /\ ~Running
    /\ IF LastOk
       THEN /\ calls' = StartCmd(DockerPushCmd(TargetImage(cfg, tags[i])))
            /\ pc' = "push"
            /\ UNCHANGED resp
       ELSE /\ resp' = ReturnError("failed to tag image")
            /\ pc' = "done"
            /\ UNCHANGED calls
    /\ UNCHANGED <<req, cfg, tags, i, pushedImages, ctxDone, cancelledInFlight>>
    /\ UNCHANGED <<urlVars, pureVars>>

\* docker.Push returns: the error return, or the append to pushedImages
PushReturns ==
    /\ pc = "push"
    /\ ~Running
    /\ IF LastOk
       THEN /\ pushedImages' = Append(pushedImages, TargetImage(cfg, tags[i]))
            /\ i' = i + 1
            /\ pc' = "loop"
            /\ UNCHANGED resp
       ELSE /\ resp' = ReturnError("failed to push image")
            /\ pc' = "done"
            /\ UNCHANGED <<i, pushedImages>>
    /\ UNCHANGED <<req, cfg, tags, calls, ctxDone, cancelledInFlight>>
    /\ UNCHANGED <<urlVars, pureVars>>

-----------------------------------------------------------------------------
(* The environment: the external process and the caller's context. *)

\* the running process exits by itself, with status zero or not
ProcessExit(ok) ==
    /\ Running
    /\ calls' = SetLast(IF ok THEN "ok" ELSE "fail")
    /\ UNCHANGED <<pc, req, cfg, tags, i, pushedImages, resp, ctxDone, cancelledInFlight>>
    /\ UNCHANGED <<urlVars, pureVars>>

\* the context of a running command is done: os/exec kills the process
ContextKill ==
    /\ Running
    /\ ctxDone
    /\ calls' = SetLast("killed")
    /\ UNCHANGED <<pc, req, cfg, tags, i, pushedImages, resp, ctxDone, cancelledInFlight>>
    /\ UNCHANGED <<urlVars, pureVars>>

\* the caller cancels the context, or its deadline passes
Cancel ==
    /\ pc \notin {"idle", "done"}
    /\ ~ctxDone
    /\ ctxDone' = TRUE
    /\ cancelledInFlight' = Running
    /\ UNCHANGED <<pc, req, cfg, tags, calls, i, pushedImages, resp>>
    /\ UNCHANGED <<urlVars, pureVars>>

-----------------------------------------------------------------------------
(* The registry endpoint resolver on its own: a client is built on a name, *)
(* resolved, and a second client is built on the result and resolved.      *)

\* the pieces registry names are built from
Chunks == {<<"r">>, <<".">>, <<"a", "z", "u", "r", "e", "c", "r">>, <<"i", "o">>, AcrSuffix}

\* the registry names: up to MaxChunks pieces, concatenated
RegistryNames == {Concat(cs) : cs \in UNION {[1..n -> Chunks] : n \in 0..MaxChunks}}

\* client := NewACRClient(registry)
NewClient ==
    /\ AllIdle
    /\ \E r \in RegistryNames : client' = NewACRClient(r)
    /\ upc' = "new"
    /\ UNCHANGED <<url1, url2>>
    /\ UNCHANGED <<execVars, pureVars>>

\* result := client.GetRegistryURL()
Resolve ==
    /\ upc = "new"
    /\ url1' = GetRegistryURL(client)
    /\ upc' = "resolved"
    /\ UNCHANGED <<client, url2>>
    /\ UNCHANGED <<execVars, pureVars>>

\* NewACRClient(result).GetRegistryURL()
ResolveAgain ==
    /\ upc = "resolved"
    /\ url2' = GetRegistryURL(NewACRClient(url1))
    /\ upc' = "again"
    /\ UNCHANGED <<client, url1>>
    /\ UNCHANGED <<execVars, pureVars>>

-----------------------------------------------------------------------------
(* The tag template resolver on its own: processTags on a template list. *)

\* a literal, two placeholders, and two templates with the conditional marker
\* among other text
ListTemplates ==
    {<<"l">>, P_Version, P_TagName, S_if \o <<"}", "}", "l">>, <<"l">> \o S_if}

\* the template lists
TemplateLists == UNION {[1..n -> ListTemplates] : n \in 0..MaxTemplates}

\* release contexts with and without a version and a tag name
ListContexts ==
    {[Version |-> v, PreviousVersion |-> <<"0">>, TagName |-> t,
      Branch |-> <<>>, ReleaseType |-> <<"m">>] :
        v \in {<<>>, <<"1">>}, t \in {<<>>, <<"v", "1">>}}

\* p.processTags(tt.tags, tt.ctx) is called
ProcessTagsCall ==
    /\ AllIdle
    /\ \E ts \in TemplateLists, c \in ListContexts :
          /\ ltemplates' = ts
          /\ lctx' = c
    /\ lpc' = "called"
    /\ UNCHANGED <<lresults, lprocessed>>
    /\ UNCHANGED <<execVars, urlVars, tmplVars, valVars>>

\* processTags returns; lresults keeps the result of processTemplate for
\* each template of the list
ProcessTagsReturn ==
    /\ lpc = "called"
    /\ lresults' = [k \in 1..Len(ltemplates) |-> processTemplate(ltemplates[k], lctx)]
    /\ lprocessed' = processTags(ltemplates, lctx)
    /\ lpc' = "returned"
    /\ UNCHANGED <<ltemplates, lctx>>
    /\ UNCHANGED <<execVars, urlVars, tmplVars, valVars>>

-----------------------------------------------------------------------------
(* The tag template resolver on its own: processTemplate on one template,  *)
(* which is the concatenation of the pieces of tpieces.                    *)

\* a placeholder processTemplate does not know
P_Unknown == <<"{", "{", ".", "X", "}", "}">>

\* the two halves of the tag-name placeholder
F_TagHead == <<"{", "{", ".", "T", "a", "g">>

F_TagTail == <<"N", "a", "m", "e", "}", "}">>

\* the placeholders processTemplate replaces
Placeholders == {P_Version, P_PreviousVersion, P_TagName, P_ReleaseType, P_Branch}

\* the pieces of a template: a literal, the placeholders, an unknown
\* placeholder, the conditional marker, and the halves of a placeholder
Pieces == {<<"l">>, P_Unknown, S_if, F_TagHead, F_TagTail} \cup Placeholders

\* the piece lists of a template
PieceLists == UNION {[1..n -> Pieces] : n \in 0..MaxPieces}

\* release contexts: the version empty, plain, or itself the text of a
\* placeholder; the branch empty or with slashes
TemplateContexts ==
    {[Version |-> v, PreviousVersion |-> <<"0">>, TagName |-> <<"v", "1">>,
      Branch |-> b, ReleaseType |-> <<"m">>] :
        v \in {<<>>, <<"1">>, P_TagName},
        b \in {<<>>, <<"f", "/", "b">>, <<"/", "x", "/", "/">>}}

\* p.processTemplate(tmpl, ctx) is called
ProcessTemplateCall ==
    /\ AllIdle
    /\ \E ps \in PieceLists, c \in TemplateContexts :
          /\ tpieces' = ps
          /\ tctx' = c
    /\ tpc' = "called"
    /\ UNCHANGED tresult
    /\ UNCHANGED <<execVars, urlVars, listVars, valVars>>

\* processTemplate returns
ProcessTemplateReturn ==
    /\ tpc = "called"
    /\ tresult' = processTemplate(Concat(tpieces), tctx)
    /\ tpc' = "returned"
    /\ UNCHANGED <<tpieces, tctx>>
    /\ UNCHANGED <<execVars, urlVars, listVars, valVars>>

-----------------------------------------------------------------------------
(* Validation on its own: Validate on a configuration map, with no         *)
(* credentials in the environment.                                         *)

\* the auth map of a configuration: absent, or a method and each credential
\* given or not
ValidateAuthMaps ==
    {[hasAuth |-> FALSE, method |-> "", client_id |-> <<>>, client_secret |-> <<>>,
      tenant_id |-> <<>>, username |-> <<>>, password |-> <<>>]}
    \cup
    {[hasAuth |-> TRUE, method |-> m, client_id |-> ci, client_secret |-> cs,
      tenant_id |-> t, username |-> u, password |-> pw] :
        m \in {"", "azure_cli", "service_principal", "admin", "managed_identity", "bogus"},
        ci \in {<<>>, <<"c">>}, cs \in {<<>>, <<"k">>}, t \in {<<>>, <<"t">>},
        u \in {<<>>, <<"n">>}, pw \in {<<>>, <<"$">>}}

\* the configuration maps Validate is called with
ValidateConfigs ==
    {[registry |-> r, repository |-> <<>>, image |-> im, source_image |-> s,
      tags |-> <<>>, dry_run |-> FALSE, hasAuth |-> a.hasAuth, method |-> a.method,
      client_id |-> a.client_id, client_secret |-> a.client_secret,
      tenant_id |-> a.tenant_id, username |-> a.username, password |-> a.password] :
        r \in {<<>>, <<"r">>},
        im \in {<<>>, <<"a">>},
        s \in {<<>>, <<"s">>},
        a \in ValidateAuthMaps}

\* p.Validate(ctx, config) is called
ValidateCall ==
    /\ AllIdle
    /\ \E raw \in ValidateConfigs : vraw' = raw
    /\ vpc' = "called"
    /\ UNCHANGED verrors
    /\ UNCHANGED <<execVars, urlVars, tmplVars, listVars>>

\* Validate returns vb.Build()
ValidateReturn ==
    /\ vpc = "called"
    /\ verrors' = Validate(vraw)
    /\ vpc' = "returned"
    /\ UNCHANGED vraw
    /\ UNCHANGED <<execVars, urlVars, tmplVars, listVars>>

-----------------------------------------------------------------------------
(* Specifications. *)

\* the steps of the program itself
ExecuteStep ==
    \/ Authenticate
    \/ ServicePrincipalLoginReturns
    \/ LoginReturns
    \/ LoopStep
    \/ TagReturns
    \/ PushReturns

Next ==
    \/ ExecuteBegin
    \/ ExecuteStep
    \/ \E ok \in BOOLEAN : ProcessExit(ok)
    \/ ContextKill
    \/ Cancel
    \/ NewClient
    \/ Resolve
    \/ ResolveAgain
    \/ ProcessTagsCall
    \/ ProcessTagsReturn
    \/ ProcessTemplateCall
    \/ ProcessTemplateReturn
    \/ ValidateCall
    \/ ValidateReturn

Spec == Init /\ [][Next]_vars

\* Execute alone, on the complete configurations
NextExecute ==
    \/ ExecuteBeginComplete
    \/ ExecuteStep
    \/ \E ok \in BOOLEAN : ProcessExit(ok)
    \/ ContextKill
    \/ Cancel

\* Under FairSpec the program runs on when it can, and os/exec kills the
\* process of a command whose context is done; nothing makes a process exit
\* by itself.
FairSpec == Init /\ [][NextExecute]_vars /\ WF_vars(ExecuteStep) /\ WF_vars(ContextKill)

-----------------------------------------------------------------------------
(* Properties of Execute. *)

\* an external invocation that did not succeed
Failed(k) == calls[k].result \in {"fail", "killed", "notstarted"}

AllOk == \A k \in 1..Len(calls) : calls[k].result = "ok"

\* the argument lists of the invocations so far
Argvs == [k \in 1..Len(calls) |-> calls[k].argv]

IsPrefix(s, t) == Len(s) <= Len(t) /\ SubSeq(t, 1, Len(s)) = s

\* C1: when the dry_run key of the configuration or the dry-run flag of the
\* request is set, Execute starts no external process at any point, whatever
\* the auth method and the tags.
C1_DryRunNoInvocation ==
    (pc # "idle" /\ (req.Config.dry_run \/ req.DryRun)) => calls = <<>>

\* a dry run by the request flag alone, with admin auth and two tags, has returned
C1_Witness ==
    /\ pc = "done"
    /\ req.DryRun /\ ~req.Config.dry_run
    /\ cfg.AuthMethod = "admin"
    /\ Len(tags) = 2
    /\ resp.Success
    /\ Len(resp.pushed_images) = 2

\* C2: in a run that is not a dry run, an external invocation that failed is
\* the last one of the log (nothing is tagged, pushed or undone after it), the
\* program is then at the return of that invocation or has returned, and when
\* it has returned it returned an error and no response (no pushed images).
C2_FailFast ==
    (pc # "idle" /\ ~cfg.DryRun) =>
        /\ \A k \in 1..(Len(calls) - 1) : calls[k].result = "ok"
        /\ (calls # <<>> /\ Failed(Len(calls))) =>
              /\ pc \in {"az_login", "acr_login", "docker_login", "mi_login",
                         "tag", "push", "done"}
              /\ pc = "done" =>
                    /\ resp.returned /\ resp.err # ""
                    /\ ~resp.hasResponse /\ ~resp.Success
                    /\ resp.pushed_images = <<>> /\ resp.tags = <<>>

\* the tag of the second of two tags failed after the first tag was pushed,
\* and Execute has returned
C2_Witness ==
    /\ pc = "done"
    /\ Len(tags) = 2
    /\ Len(calls) = 4
    /\ calls[3].result = "ok"
    /\ calls[3].argv[2] = S_push
    /\ calls[4].argv[2] = S_tag
    /\ calls[4].result = "fail"
    /\ ~ctxDone

\* the pushed_images a run without failures reports: host/path:tag per tag
ExpectedImages ==
    LET host == GetRegistryURL(NewACRClient(req.Config.registry))
        path == IF req.Config.repository # <<>>
                THEN req.Config.repository \o <<"/">> \o req.Config.image
                ELSE req.Config.image
    IN  [j \in 1..Len(tags) |-> host \o <<"/">> \o path \o <<":">> \o tags[j]]

ResultOfCleanRun ==
    /\ resp.returned /\ resp.hasResponse /\ resp.Success /\ resp.err = ""
    /\ resp.tags = tags
    /\ Len(resp.pushed_images) = Len(resp.tags)
    /\ resp.pushed_images = ExpectedImages

\* C3 as stated: whenever no external invocation failed (every dry run
\* included), Execute returns success with pushed_images[i] =
\* host/path:tags[i].
C3_Original ==
    (pc = "done" /\ AllOk) => ResultOfCleanRun

\* C3 as amended: whenever no external invocation failed and the run is a dry
\* run or the auth method is one Authenticate knows, Execute returns success
\* with pushed_images of the length of tags and pushed_images[i] =
\* host/path:tags[i]; an empty resolved tag list gives an empty pushed_images.
C3_ResultOfCleanRun ==
    (pc = "done" /\ AllOk /\ (cfg.DryRun \/ cfg.AuthMethod \in KnownMethods))
        => ResultOfCleanRun

\* a real run with a repository and two tags pushed both
C3_Witness ==
    /\ pc = "done"
    /\ ~cfg.DryRun
    /\ AllOk
    /\ cfg.Repository # <<>>
    /\ Len(tags) = 2
    /\ Len(calls) = 5
    /\ Len(resp.pushed_images) = 2

\* the login commands of the selected auth method
ExpectedLogin ==
    LET c == NewACRClient(cfg.Registry)
        m == cfg.AuthMethod
    IN  IF m \in {"azure_cli", ""} THEN <<AzureCLICmd(c).argv>>
        ELSE IF m = "service_principal"
        THEN <<ServicePrincipalLoginCmd(AuthConfigOf(cfg)).argv, AzureCLICmd(c).argv>>
        ELSE IF m = "admin" THEN <<AdminCmd(c, AuthConfigOf(cfg)).argv>>
        ELSE IF m = "managed_identity" THEN <<ManagedIdentityCmd(c).argv>>
        ELSE <<>>

\* tag and push of each resolved tag, in the order of the tags
RECURSIVE ExpectedTagPush(_)
ExpectedTagPush(ts) ==
    IF ts = <<>> THEN <<>>
    ELSE <<DockerTagCmd(cfg.SourceImage, TargetImage(cfg, Head(ts))).argv,
           DockerPushCmd(TargetImage(cfg, Head(ts))).argv>>
         \o ExpectedTagPush(Tail(ts))

\* C4: in a run that is not a dry run, the invocations made so far are a
\* prefix of [login step(s), tag(1), push(1), ..., tag(n), push(n)] in the
\* order of the resolved tags, equal tags included once each, and on success
\* they are the whole list.
C4_InvocationOrder ==
    (pc # "idle" /\ ~cfg.DryRun) =>
        LET expected == ExpectedLogin \o ExpectedTagPush(tags)
        IN  /\ IsPrefix(Argvs, expected)
            /\ (pc = "done" /\ resp.Success) => Argvs = expected

\* a successful run of two equal tags tagged and pushed the target twice
C4_Witness ==
    /\ pc = "done"
    /\ resp.Success
    /\ ~cfg.DryRun
    /\ Len(tags) = 2
    /\ tags[1] = tags[2]
    /\ Len(calls) = 5
    /\ calls[2].argv = calls[4].argv
    /\ calls[3].argv = calls[5].argv

\* C5: Execute called with a configuration that Validate rejects makes no
\* external invocation and does not return success.
C5_ValidatesFirst ==
    (pc # "idle" /\ Validate(req.Config) # <<>>) => (calls = <<>> /\ ~resp.Success)

\* C6: with method service_principal the first invocation is `az login
\* --service-principal -u <client id> -p <client secret> --tenant <tenant id>`;
\* the registry login (the invocation of azure_cli) is the second invocation
\* and is made only after the first succeeded; when the first fails there is
\* no second invocation and Execute returns the authentication error; the
\* tag loop is entered only after both succeeded.
C6_ServicePrincipalTwoSteps ==
    (pc # "idle" /\ ~cfg.DryRun /\ cfg.AuthMethod = "service_principal") =>
        /\ pc # "auth" => calls # <<>>
        /\ Len(calls) >= 1 =>
              calls[1].argv = <<S_az, S_login, S_sp, S_u, req.Config.client_id,
                                S_p, req.Config.client_secret,
                                S_tenant, req.Config.tenant_id>>
        /\ Len(calls) >= 2 =>
              /\ calls[1].result = "ok"
              /\ calls[2].argv = <<S_az, S_acr, S_login, S_name, cfg.Registry>>
        /\ (Len(calls) >= 1 /\ Failed(1)) =>
              /\ Len(calls) = 1
              /\ pc \in {"az_login", "done"}
              /\ pc = "done" => (resp.err = "failed to authenticate with ACR"
                                 /\ ~resp.hasResponse)
        /\ (pc \in {"loop", "tag", "push"} \/ resp.Success) =>
              (Len(calls) >= 2 /\ calls[2].result = "ok")

\* the service principal login succeeded and the registry login was made
C6_Witness ==
    /\ cfg.AuthMethod = "service_principal"
    /\ ~cfg.DryRun
    /\ cfg.ClientID # <<>>
    /\ Len(calls) = 2
    /\ calls[1].result = "ok"
    /\ calls[2].argv[2] = S_acr
    /\ pc = "acr_login"

\* an invocation of `az acr login`
IsAcrLogin(k) == calls[k].argv[1] = S_az /\ calls[k].argv[2] = S_acr

\* C7: the --name argument of every `az acr login` is the registry name
\* without the .azurecr.io suffix, for a short and for a fully qualified
\* configured registry.
C7_AcrLoginShortName ==
    \A k \in 1..Len(calls) :
        IsAcrLogin(k) =>
            /\ calls[k].argv[4] = S_name
            /\ ~HasSuffix(calls[k].argv[5], AcrSuffix)
            /\ calls[k].argv[5] \o AcrSuffix = GetRegistryURL(NewACRClient(req.Config.registry))

\* C8: with method admin and a password, the first and only login is `docker
\* login <registry host> -u <username> --password-stdin` with the password as
\* its standard input; every later invocation is a docker tag or push without
\* standard input, and no argument of any invocation contains the password.
C8_AdminPasswordOnStdin ==
    (pc # "idle" /\ ~cfg.DryRun /\ cfg.AuthMethod = "admin" /\ cfg.Password # <<>>) =>
        /\ pc # "auth" => calls # <<>>
        /\ Len(calls) >= 1 =>
              /\ calls[1].argv =
                    <<S_docker, S_login,
                      IF HasSuffix(req.Config.registry, AcrSuffix)
                      THEN req.Config.registry ELSE req.Config.registry \o AcrSuffix,
                      S_u, req.Config.username, S_pwstdin>>
              /\ calls[1].stdin = req.Config.password
        /\ \A k \in 2..Len(calls) :
              /\ calls[k].argv[1] = S_docker
              /\ calls[k].argv[2] \in {S_tag, S_push}
              /\ calls[k].stdin = <<>>
        /\ \A k \in 1..Len(calls) :
              \A j \in 1..Len(calls[k].argv) : ~Contains(calls[k].argv[j], cfg.Password)

\* an admin login on a short registry name succeeded and an image was pushed
C8_Witness ==
    /\ cfg.AuthMethod = "admin"
    /\ ~cfg.DryRun
    /\ cfg.Password = <<"$">>
    /\ cfg.Registry = <<"r">>
    /\ Len(calls) = 3
    /\ calls[1].stdin = <<"$">>
    /\ calls[3].argv[2] = S_push
    /\ calls[3].result = "ok"

\* no process is started for a command made after the context was done
NoStartAfterCancel ==
    \A k \in 1..Len(calls) : calls[k].ctxDoneAtStart => calls[k].result = "notstarted"

\* C9 as stated: when the context was cancelled while a process was in
\* flight, Execute returns an error, and no later invocation runs.
C9_Original ==
    /\ NoStartAfterCancel
    /\ (pc = "done" /\ cancelledInFlight) => (resp.err # "" /\ ~resp.Success)

\* the outcome of a run whose context was cancelled with a process in flight
CancelledOutcome ==
    (pc = "done" /\ cancelledInFlight) =>
        /\ resp.returned
        /\ resp.Success <=> AllOk
        /\ ~resp.Success => (resp.err # "" /\ ~resp.hasResponse)
        /\ resp.Success =>
              /\ \A k \in 1..Len(calls) : ~calls[k].ctxDoneAtStart
              /\ Argvs = ExpectedLogin \o ExpectedTagPush(tags)

\* C9 as amended: when the context is cancelled while a process is in
\* flight, the process is killed unless it exits by itself first, no process
\* is started afterwards, and Execute eventually returns: with an error,
\* unless the process in flight was the last invocation of the pipeline and
\* exited with success before it was killed.
C9_CancellationUnwinds ==
    /\ [](NoStartAfterCancel /\ CancelledOutcome)
    /\ (cancelledInFlight ~> (pc = "done" /\ ~Running))

\* the push in flight was killed by the cancellation and Execute returned the
\* push error
C9_Witness ==
    /\ pc = "done"
    /\ cancelledInFlight
    /\ Len(calls) = 3
    /\ calls[3].argv[2] = S_push
    /\ calls[3].result = "killed"
    /\ resp.err = "failed to push image"

\* C10: GetRegistryURL of a client built on GetRegistryURL(r) is
\* GetRegistryURL(r); a name that ends in .azurecr.io is returned unchanged;
\* for any other name the result is the name followed by .azurecr.io.
C10_ResolveIdempotent ==
    LET r == client.registry
    IN  /\ upc \in {"resolved", "again"} =>
              /\ HasSuffix(r, AcrSuffix) => url1 = r
              /\ ~HasSuffix(r, AcrSuffix) =>
                    /\ url1 = r \o AcrSuffix
                    /\ HasPrefix(url1, r)
                    /\ HasSuffix(url1, AcrSuffix)
                    /\ Len(url1) = Len(r) + Len(AcrSuffix)
        /\ upc = "again" => url2 = url1

\* a name holding the suffix in its middle was resolved twice
C10_Witness ==
    /\ upc = "again"
    /\ client.registry = AcrSuffix \o <<"r">>
    /\ url1 = AcrSuffix \o <<"r">> \o AcrSuffix
    /\ url2 = url1

-----------------------------------------------------------------------------
(* Properties of the tag template resolver. *)

NonEmpty(x) == x # <<>>

\* C11: processTags returns the results of processTemplate for the templates
\* in input order with the empty results removed: the output is no longer than
\* the input, holds no empty string and keeps the order of the survivors; a
\* template that contains {{if resolves to empty, whatever else it contains.
C11_ProcessTagsFilters ==
    lpc = "returned" =>
        /\ lprocessed = SelectSeq(lresults, NonEmpty)
        /\ Len(lprocessed) <= Len(ltemplates)
        /\ Len(lprocessed) = Cardinality({k \in 1..Len(lresults) : lresults[k] # <<>>})
        /\ \A j \in 1..Len(lprocessed) : lprocessed[j] # <<>>
        /\ \A k \in 1..Len(ltemplates) :
              Contains(ltemplates[k], S_if) => lresults[k] = <<>>

\* of three templates the conditional one in the middle was dropped and the
\* two others kept their order
C11_Witness ==
    /\ lpc = "returned"
    /\ Len(ltemplates) = 3
    /\ ltemplates[2] = S_if \o <<"}", "}", "l">>
    /\ lresults[1] = <<"1">>
    /\ lresults[2] = <<>>
    /\ lresults[3] = <<"v", "1">>
    /\ lprocessed = <<<<"1">>, <<"v", "1">>>>

\* the template processTemplate was called with
Template == Concat(tpieces)

\* the branch name with every / turned into -
SafeBranch(b) == [k \in 1..Len(b) |-> IF b[k] = "/" THEN "-" ELSE b[k]]

\* what a piece of a template stands for: the context value for the four
\* value placeholders, the safe branch name for the branch placeholder when
\* there is a branch, and the piece itself otherwise
PieceValue(piece, ctx) ==
    IF piece = P_Version THEN ctx.Version
    ELSE IF piece = P_PreviousVersion THEN ctx.PreviousVersion
    ELSE IF piece = P_TagName THEN ctx.TagName
    ELSE IF piece = P_ReleaseType THEN ctx.ReleaseType
    ELSE IF piece = P_Branch /\ ctx.Branch # <<>> THEN SafeBranch(ctx.Branch)
    ELSE piece

\* the template with each piece replaced by what it stands for
Substituted == Concat([k \in 1..Len(tpieces) |-> PieceValue(tpieces[k], tctx)])

\* the template is made of whole pieces and the context values hold no
\* placeholder text
PlainInput ==
    /\ \A k \in 1..Len(tpieces) : tpieces[k] \notin {S_if, F_TagHead, F_TagTail}
    /\ \A p \in Placeholders : ~Contains(tctx.Version, p)

BranchHandling ==
    /\ ~Contains(SafeBranch(tctx.Branch), S_slash)
    /\ tctx.Branch # <<>> =>
          /\ ~Contains(tresult, P_Branch)
          /\ Contains(Template, P_Branch) => Contains(tresult, SafeBranch(tctx.Branch))
    /\ (tctx.Branch = <<>> /\ Contains(Template, P_Branch)) =>
          /\ Contains(tresult, P_Branch)
          /\ tresult # <<>>
    /\ PlainInput => tresult = Substituted

\* C12 as stated: for every template, with a branch every occurrence of
\* {{.Branch}} is replaced by the branch name with / turned into -, and
\* without a branch the placeholder stays in the tag, which is not dropped.
C12_Original ==
    tpc = "returned" => BranchHandling

\* C12 as amended: for every template without the conditional marker {{if,
\* with a branch every occurrence of {{.Branch}} is replaced by the branch
\* name with every / turned into - (the text the branch contributes holds no
\* /), and without a branch the placeholder stays in the resolved tag as
\* literal text and the tag is not dropped.
C12_BranchPlaceholder ==
    (tpc = "returned" /\ ~Contains(Template, S_if)) => BranchHandling

\* a template of a literal and the branch placeholder was resolved with a
\* branch of three slashes
C12_Witness ==
    /\ tpc = "returned"
    /\ tpieces = <<<<"l">>, P_Branch>>
    /\ tctx.Branch = <<"/", "x", "/", "/">>
    /\ tresult = <<"l", "-", "x", "-", "-">>

\* C15: for a template without the conditional marker, processTemplate
\* returns the template with each version, previous-version, tag-name and
\* release-type placeholder replaced by the context value as it is, and every
\* other text, an unknown placeholder included, unchanged (the branch
\* placeholder aside, which is replaced by the safe branch name when there is
\* a branch).  Stated for the templates made of whole pieces, whose
\* placeholders are exactly their placeholder pieces.
C15_LiteralSubstitution ==
    (/\ tpc = "returned"
     /\ ~Contains(Template, S_if)
     /\ \A k \in 1..Len(tpieces) : tpieces[k] \notin {F_TagHead, F_TagTail})
        => tresult = Substituted

-----------------------------------------------------------------------------
(* Properties of Validate. *)

\* 1 for a violated rule, 0 otherwise
One(b) == IF b THEN 1 ELSE 0

\* how many errors of the response name the field
ErrorsOn(field) == Cardinality({k \in 1..Len(verrors) : verrors[k] = field})

\* the rules of the configuration schema, read off the map
RegistryMissing == vraw.registry = <<>>

ImageMissing == vraw.image = <<>>

SourceImageMissing == vraw.source_image = <<>>

MethodUnrecognized ==
    vraw.hasAuth /\ vraw.method \notin {"", "azure_cli", "service_principal", "admin",
                                        "managed_identity"}

ServicePrincipalIncomplete ==
    /\ vraw.hasAuth /\ vraw.method = "service_principal"
    /\ (vraw.client_id = <<>> \/ vraw.client_secret = <<>> \/ vraw.tenant_id = <<>>)

AdminIncomplete ==
    /\ vraw.hasAuth /\ vraw.method = "admin"
    /\ (vraw.username = <<>> \/ vraw.password = <<>>)

\* C13: Validate returns one error per violated rule among registry empty,
\* image empty, source_image empty, auth method unrecognized,
\* service_principal with a credential missing, admin with username or
\* password missing, and no other error; so the empty map has exactly the
\* three errors of the required fields, and service_principal without
\* credentials adds exactly one error to those.
C13_ValidateCollectsAll ==
    vpc = "returned" =>
        /\ ErrorsOn("registry") = One(RegistryMissing)
        /\ ErrorsOn("image") = One(ImageMissing)
        /\ ErrorsOn("source_image") = One(SourceImageMissing)
        /\ ErrorsOn("auth.method") = One(MethodUnrecognized)
        /\ ErrorsOn("auth") = One(ServicePrincipalIncomplete) + One(AdminIncomplete)
        /\ Len(verrors) = One(RegistryMissing) + One(ImageMissing) + One(SourceImageMissing)
                          + One(MethodUnrecognized) + One(ServicePrincipalIncomplete)
                          + One(AdminIncomplete)
        /\ (RegistryMissing /\ ImageMissing /\ SourceImageMissing /\ ~vraw.hasAuth)
              => verrors = <<"registry", "image", "source_image">>

\* service_principal with no credential and no required field: the three
\* base errors and one more
C13_Witness ==
    /\ vpc = "returned"
    /\ RegistryMissing /\ ImageMissing /\ SourceImageMissing
    /\ vraw.hasAuth /\ vraw.method = "service_principal"
    /\ vraw.client_id = <<>> /\ vraw.client_secret = <<>> /\ vraw.tenant_id = <<>>
    /\ verrors = <<"registry", "image", "source_image", "auth">>

\* the field is among the errors Validate returns for the map
Reports(raw, field) == \E k \in 1..Len(Validate(raw)) : Validate(raw)[k] = field

\* C14: an absent or empty auth.method selects azure_cli (Validate accepts it
\* and a run that is not a dry run starts with `az acr login`); for a selector
\* that is none of azure_cli, service_principal, admin, managed_identity or
\* empty, Validate reports an auth.method error, and a run that is not a dry
\* run makes no external invocation and returns an error.
C14_NoFallback ==
    /\ pc # "idle" =>
          /\ (~req.Config.hasAuth \/ req.Config.method = "") =>
                /\ cfg.AuthMethod = "azure_cli"
                /\ ~Reports(req.Config, "auth.method")
                /\ ~cfg.DryRun =>
                      /\ pc # "auth" => calls # <<>>
                      /\ calls # <<>> =>
                            calls[1].argv = <<S_az, S_acr, S_login, S_name, req.Config.registry>>
          /\ (req.Config.hasAuth /\ req.Config.method \notin KnownMethods) =>
                /\ Reports(req.Config, "auth.method")
                /\ ~cfg.DryRun =>
                      /\ calls = <<>>
                      /\ pc \in {"auth", "done"}
                      /\ pc = "done" => (resp.err # "" /\ ~resp.Success /\ ~resp.hasResponse)
    /\ vpc = "returned" =>
          (ErrorsOn("auth.method") = 1 <=>
              (vraw.hasAuth /\ vraw.method \notin KnownMethods))

\* a run that is not a dry run, with an unknown method and an otherwise
\* complete configuration, has returned
C14_Witness ==
    /\ pc = "done"
    /\ req.Config.hasAuth
    /\ req.Config.method = "bogus"
    /\ ~cfg.DryRun
    /\ Validate(req.Config) = <<"auth.method">>
    /\ calls = <<>>
    /\ resp.err = "failed to authenticate with ACR"

====
